---- MODULE Spec2Model ----
(***************************************************************************)
(* ApiClient of expediagroup/sdk/core/client/api.py: header preparation,   *)
(* request dispatch and response resolution of ApiClient.call.             *)
(***************************************************************************)
EXTENDS Integers, Sequences, FiniteSets, TLC

VARIABLES
    pc,             \* position of the running call ("idle" between calls)
    heap,           \* the dict objects header preparation can reach, by identity
    defaultModels,  \* the shared default of response_models, [None]
    defaultErrors,  \* the shared default of error_responses, {}
    args,           \* arguments of the running call
    token,          \* the auth collaborator's credential state
    events,         \* what the running call has done so far, in order
    sent,           \* transport requests issued by the running call
    response,       \* the response the transport returned
    outcome,        \* what the operation returned or raised
    calls           \* number of call() invocations started

vars == <<pc, heap, defaultModels, defaultErrors, args, token, events, sent,
          response, outcome, calls>>

-----------------------------------------------------------------------------
(* Bounds *)

MaxModels == 2      \* longest response_models list drawn
MaxCalls == 2       \* call() invocations in one behaviour
MaxToken == 2       \* distinct credentials the auth collaborator hands out

-----------------------------------------------------------------------------
(* Header values and the objects holding them *)

NoneValue == [kind |-> "none", val |-> ""]
EmptyStr  == [kind |-> "str",  val |-> ""]
TextValue == [kind |-> "str",  val |-> "text/plain"]
EnumValue == [kind |-> "enum", val |-> "GOLD"]
UuidValue == [kind |-> "uuid", val |-> "1b9d6bcd"]
ZeroValue == [kind |-> "int",  val |-> "0"]
ModelValue == [kind |-> "model", val |-> "{\"id\": 1}"]

HeaderValues ==
    {NoneValue, EmptyStr, TextValue, EnumValue, UuidValue, ZeroValue, ModelValue}

\* header_constant.API_REQUEST, the fixed default header set
API_REQUEST ==
    [k \in {"Accept", "Content-type"} |-> [kind |-> "str", val |-> "application/json"]]

CallerKeys == {"Accept", "Content-type", "x-id"}

HeaderMappings == UNION {[D -> HeaderValues] : D \in SUBSET CallerKeys}

EmptyDict == [k \in {} |-> NoneValue]

\* Python truthiness of a header value: None, "" and 0 are falsy
Truthy(v) ==
    ~(v.kind = "none" \/ (v.kind = "str" /\ v.val = "") \/ (v.kind = "int" /\ v.val = "0"))

\* isinstance(v, BaseModel) or isinstance(v, enum.Enum) or isinstance(v, uuid.UUID)
NeedsSerialization(v) == v.kind \in {"model", "enum", "uuid"}

\* json.dumps(v, default=pydantic_encoder): the JSON object of a model, the JSON
\* string literal of an enum's value or of a UUID
JsonDumps(v) ==
    IF v.kind = "model" THEN [kind |-> "str", val |-> v.val]
    ELSE [kind |-> "str", val |-> "\"" \o v.val \o "\""]

\* d[k] = entries[k] for every k of entries, on the dict d
Store(d, entries) ==
    [k \in DOMAIN d \cup DOMAIN entries |->
        IF k \in DOMAIN entries THEN entries[k] ELSE d[k]]

\* dict(): a new empty object
Alloc(h, id) == [h EXCEPT ![id] = EmptyDict]

\* the entries the loop of __prepare_request_headers stores
PreparedEntries(headers) ==
    [k \in {x \in DOMAIN headers : Truthy(headers[x])} |->
        IF NeedsSerialization(headers[k]) THEN JsonDumps(headers[k]) ELSE headers[k]]

\* mutation: default headers are stored over the keys already present
FillRequestHeadersOverwrite(h, ref) ==
    LET h0 == Alloc(h, "fresh2")
        target == IF DOMAIN h0[ref] = {} THEN "fresh2" ELSE ref
    IN [heap |-> [h0 EXCEPT ![target] = Store(h0[target], h0["API_REQUEST"])],
        ref  |-> target]

\* __fill_request_headers: result is the heap after the call and the object returned
FillRequestHeaders(h, ref) ==
    LET h0 == Alloc(h, "fresh2")
        target == IF DOMAIN h0[ref] = {} THEN "fresh2" ELSE ref
        missing == {k \in DOMAIN h0["API_REQUEST"] : k \notin DOMAIN h0[target]}
    IN [heap |-> [h0 EXCEPT ![target] =
                     Store(h0[target], [k \in missing |-> h0["API_REQUEST"][k]])],
        ref  |-> target]

\* mutation: the loop stores into the mapping it was given
RequestHeadersAliased(headersRef) == headersRef

\* request_headers = dict() of __prepare_request_headers
RequestHeadersDict(headersRef) == "fresh1"

\* __prepare_request_headers
PrepareRequestHeaders(h, headersRef) ==
    LET h0 == Alloc(h, "fresh1")
        target == RequestHeadersDict(headersRef)
        h1 == [h0 EXCEPT ![target] = Store(h0[target], PreparedEntries(h0[headersRef]))]
    IN FillRequestHeaders(h1, target)

InitHeap ==
    [o \in {"DEFAULT_HEADERS", "CALLER_HEADERS", "API_REQUEST", "fresh1", "fresh2"} |->
        IF o = "API_REQUEST" THEN API_REQUEST ELSE EmptyDict]

-----------------------------------------------------------------------------
(* Responses, shapes and parsing *)

OK_STATUS_CODES_RANGE == 200..299

\* members of http.HTTPStatus; HTTPStatus(n) raises ValueError for any other n
HTTPStatusCodes ==
    {100, 101, 102, 103} \cup (200..208) \cup {226} \cup (300..305) \cup {307, 308}
    \cup (400..418) \cup (421..426) \cup {428, 429, 431, 451} \cup (500..508)
    \cup {510, 511}

Statuses == {199, 200, 204, 299, 300, 404, 500, 599}

Fields == {"a", "b", "message", "type"}

\* a response body: undecodable, or a JSON object with some fields
Bodies == {[decodable |-> FALSE, fields |-> {}]}
          \cup {[decodable |-> TRUE, fields |-> F] : F \in SUBSET Fields}

Responses == [status_code : Statuses, body : Bodies]

ModelShapes == {"ShapeA", "ShapeB"}
Candidates == {"None"} \cup ModelShapes

Required(model) ==
    CASE model = "ShapeA" -> {"a"}
      [] model = "ShapeB" -> {"b"}
      [] model = "Error" -> {"type"}
      [] model = "NotFoundError" -> {"message"}
      [] OTHER -> {}

Declared(model) ==
    CASE model = "ShapeA" -> {"a", "type"}
      [] model = "ShapeB" -> {"b"}
      [] model = "Error" -> {"type", "message"}
      [] model = "NotFoundError" -> {"message"}
      [] OTHER -> {}

\* pydantic validation succeeds when every required field is present
Validates(model, json) == Required(model) \subseteq json.fields

\* pydantic.parse_obj_as(model, json): undeclared fields are ignored
ParseObjAs(model, json) == [model |-> model, fields |-> json.fields \cap Declared(model)]

NoObject == [model |-> "None", fields |-> {}]

ErrorEntries ==
    {[model |-> "NotFoundError", exception |-> "NotFoundException"],
     [model |-> "Error", exception |-> "ServiceUnavailableException"]}

RegisteredStatuses == {404, 599}

ErrorMaps == UNION {[D -> ErrorEntries] : D \in SUBSET RegisteredStatuses}

RECURSIVE SeqsUpTo(_, _)
SeqsUpTo(S, n) ==
    IF n = 0 THEN {<<>>}
    ELSE LET shorter == SeqsUpTo(S, n - 1)
         IN shorter \cup {Append(s, x) : s \in {t \in shorter : Len(t) = n - 1}, x \in S}

ModelLists == SeqsUpTo(Candidates, MaxModels)

NoException == [type |-> "none", error |-> NoObject, error_code |-> 0]

Raised(exception) ==
    [raised |-> TRUE, exception |-> exception, value |-> NoObject, tried |-> <<>>]

Returned(value, tried) ==
    [raised |-> FALSE, exception |-> NoException, value |-> value, tried |-> tried]

Failure(type) == [type |-> type, error |-> NoObject, error_code |-> 0]

\* the raise of one branch of the failure path: response.json(), the parse against
\* the error shape, HTTPStatus(status_code), then the constructor's of(...)
RaiseFor(ctor, model, resp) ==
    IF ~resp.body.decodable THEN Raised(Failure("JSONDecodeError"))
    ELSE IF ~Validates(model, resp.body) THEN Raised(Failure("ValidationError"))
    ELSE IF resp.status_code \notin HTTPStatusCodes THEN Raised(Failure("ValueError"))
    ELSE Raised([type |-> ctor, error |-> ParseObjAs(model, resp.body),
                 error_code |-> resp.status_code])

ErrorPath(resp, error_responses) ==
    IF resp.status_code \in DOMAIN error_responses
    THEN RaiseFor(error_responses[resp.status_code].exception,
                  error_responses[resp.status_code].model, resp)
    ELSE RaiseFor("ExpediaGroupApiException", "Error", resp)

\* mutation: a later candidate that parses replaces an earlier result
RECURSIVE TryModelsKeepGoing(_, _, _, _, _)
TryModelsKeepGoing(resp, response_models, i, tried, found) ==
    IF i > Len(response_models) THEN Returned(found, tried)
    ELSE LET model == response_models[i]
         IN IF model = "None"
            THEN TryModelsKeepGoing(resp, response_models, i + 1, tried, found)
            ELSE IF resp.body.decodable /\ Validates(model, resp.body)
            THEN TryModelsKeepGoing(resp, response_models, i + 1, Append(tried, i),
                                    ParseObjAs(model, resp.body))
            ELSE TryModelsKeepGoing(resp, response_models, i + 1, Append(tried, i), found)

\* mutation: a candidate that fails to parse raises
RECURSIVE TryModelsRaising(_, _, _, _, _)
TryModelsRaising(resp, response_models, i, tried, found) ==
    IF i > Len(response_models) THEN Returned(found, tried)
    ELSE LET model == response_models[i]
         IN IF model = "None"
            THEN TryModelsRaising(resp, response_models, i + 1, tried, found)
            ELSE IF ~resp.body.decodable THEN Raised(Failure("JSONDecodeError"))
            ELSE IF ~Validates(model, resp.body) THEN Raised(Failure("ValidationError"))
            ELSE Returned(ParseObjAs(model, resp.body), Append(tried, i))

\* the loop over response_models, from candidate i on; tried lists the indices
\* whose parse was attempted
RECURSIVE TryModels(_, _, _, _, _)
TryModels(resp, response_models, i, tried, found) ==
    IF i > Len(response_models) THEN Returned(found, tried)
    ELSE LET model == response_models[i]
         IN IF model = "None"
            THEN TryModels(resp, response_models, i + 1, tried, found)
            ELSE IF resp.body.decodable /\ Validates(model, resp.body)
            THEN Returned(ParseObjAs(model, resp.body), Append(tried, i))
            ELSE TryModels(resp, response_models, i + 1, Append(tried, i), found)

\* mutation: only a registered status raises
BuildResponseRegisteredOnly(resp, response_models, error_responses) ==
    IF resp.status_code \notin OK_STATUS_CODES_RANGE
       /\ resp.status_code \in DOMAIN error_responses
    THEN ErrorPath(resp, error_responses)
    ELSE TryModels(resp, response_models, 1, <<>>, NoObject)

\* __build_response
BuildResponse(resp, response_models, error_responses) ==
    IF resp.status_code \notin OK_STATUS_CODES_RANGE
    THEN ErrorPath(resp, error_responses)
    ELSE TryModels(resp, response_models, 1, <<>>, NoObject)

-----------------------------------------------------------------------------
(* The auth collaborator *)

\* AuthClient.auth_header: the credential the collaborator currently holds
AuthHeader(t) == [scheme |-> "Bearer", token |-> t]

-----------------------------------------------------------------------------
(* State of call() *)

NoResponse == [status_code |-> 0, body |-> [decodable |-> FALSE, fields |-> {}]]
NoOutcome == Returned(NoObject, <<>>)
NoErrors == [s \in {} |-> CHOOSE e \in ErrorEntries : TRUE]

IdleArgs ==
    [headers |-> "DEFAULT_HEADERS", supplied |-> EmptyDict,
     request_headers |-> "fresh1", response_models |-> <<"None">>,
     error_responses |-> NoErrors, body |-> FALSE, entryToken |-> 0]

\* inputs drawn by the callers of call()
CallHeaderChoices ==
    {("x-id" :> UuidValue),
     ("Accept" :> NoneValue),
     ("Accept" :> TextValue) @@ ("x-id" :> EnumValue)}

CallModelChoices == {<<"ShapeA", "ShapeB">>, <<"None", "ShapeB">>}

CallErrorChoices ==
    {(404 :> [model |-> "NotFoundError", exception |-> "NotFoundException"])}

CallResponses ==
    [status_code : {200, 404, 500, 599},
     body : {[decodable |-> FALSE, fields |-> {}],
             [decodable |-> TRUE, fields |-> {"b"}],
             [decodable |-> TRUE, fields |-> {"message"}],
             [decodable |-> TRUE, fields |-> {"type"}]}]

TransportErrors == {"Timeout", "ConnectionError"}

HeaderArgs == {<<"DEFAULT_HEADERS", EmptyDict>>}
              \cup {<<"CALLER_HEADERS", H>> : H \in CallHeaderChoices}

\* the arguments as bound on entry to call(); an omitted argument is the shared default
Bind(h, m, e, b) ==
    [headers |-> h[1], supplied |-> h[2], request_headers |-> "fresh1",
     response_models |-> m, error_responses |-> e, body |-> b, entryToken |-> token]

\* the credential states refresh_token() may leave behind
Refreshed == {token} \cup (IF token < MaxToken THEN {token + 1} ELSE {})

Init ==
    /\ pc = "idle"
    /\ heap = InitHeap
    /\ defaultModels = <<"None">>
    /\ defaultErrors = NoErrors
    /\ args = IdleArgs
    /\ token = 0
    /\ events = <<>>
    /\ sent = <<>>
    /\ response = NoResponse
    /\ outcome = NoOutcome
    /\ calls = 0

\* call() is entered and refresh_token() returns
Call ==
    /\ pc = "idle"
    /\ calls < MaxCalls
    /\ \E h \in HeaderArgs, m \in {defaultModels} \cup CallModelChoices,
          e \in {defaultErrors} \cup CallErrorChoices, b \in BOOLEAN :
          /\ args' = Bind(h, m, e, b)
          /\ heap' = [heap EXCEPT ![h[1]] = h[2]]
    /\ token' \in Refreshed
    /\ events' = <<"refresh">>
    /\ pc' = "prepare"
    /\ calls' = calls + 1
    /\ sent' = <<>>
    /\ response' = NoResponse
    /\ outcome' = NoOutcome
    /\ UNCHANGED <<defaultModels, defaultErrors>>

\* call() is entered and refresh_token() raises
CallRefreshFails ==
    /\ pc = "idle"
    /\ calls < MaxCalls
    /\ \E h \in HeaderArgs, m \in {defaultModels} \cup CallModelChoices,
          e \in {defaultErrors} \cup CallErrorChoices, b \in BOOLEAN :
          /\ args' = Bind(h, m, e, b)
          /\ heap' = [heap EXCEPT ![h[1]] = h[2]]
    /\ events' = <<"refresh">>
    /\ outcome' = Raised(Failure("AuthError"))
    /\ pc' = "done"
    /\ calls' = calls + 1
    /\ sent' = <<>>
    /\ response' = NoResponse
    /\ UNCHANGED <<token, defaultModels, defaultErrors>>

\* request_headers = ApiClient.__prepare_request_headers(headers)
PrepareHeaders ==
    /\ pc = "prepare"
    /\ LET r == PrepareRequestHeaders(heap, args.headers)
       IN /\ heap' = r.heap
          /\ args' = [args EXCEPT !.request_headers = r.ref]
    /\ events' = Append(events, "prepare")
    /\ pc' = "send"
    /\ UNCHANGED <<defaultModels, defaultErrors, token, sent, response, outcome, calls>>

\* mutation: the credential read on entry to call() is sent
RequestAuthStale == AuthHeader(args.entryToken)

\* auth=self.__auth_client.auth_header, evaluated when the request is built
RequestAuth == AuthHeader(token)

\* the request handed to requests.request
Request == [headers |-> heap[args.request_headers], auth |-> RequestAuth, data |-> args.body]

\* requests.request returns a response
RequestReturns ==
    /\ pc = "send"
    /\ sent' = Append(sent, Request)
    /\ events' = Append(events, "request")
    /\ \E resp \in CallResponses : response' = resp
    /\ pc' = "log"
    /\ UNCHANGED <<heap, defaultModels, defaultErrors, args, token, outcome, calls>>

\* mutation: a failed request is sent again
RequestFailsRetried ==
    /\ pc = "send"
    /\ sent' = Append(sent, Request)
    /\ events' = Append(events, "request")
    /\ pc' = "send"
    /\ UNCHANGED <<heap, defaultModels, defaultErrors, args, token, response, outcome, calls>>

\* requests.request raises (timeout, connection error); call() has no handler
RequestFails ==
    /\ pc = "send"
    /\ sent' = Append(sent, Request)
    /\ events' = Append(events, "request")
    /\ \E err \in TransportErrors : outcome' = Raised(Failure(err))
    /\ pc' = "done"
    /\ UNCHANGED <<heap, defaultModels, defaultErrors, args, token, response, calls>>

\* mutation: only a success response is logged
LogEntryOnSuccessOnly ==
    /\ pc = "log"
    /\ events' = IF response.status_code \in OK_STATUS_CODES_RANGE
                 THEN Append(events, "log") ELSE events
    /\ pc' = "resolve"
    /\ UNCHANGED <<heap, defaultModels, defaultErrors, args, token, sent, response,
                   outcome, calls>>

\* log_util.request_log(...) and LOG.info(...)
LogEntry ==
    /\ pc = "log"
    /\ events' = Append(events, "log")
    /\ pc' = "resolve"
    /\ UNCHANGED <<heap, defaultModels, defaultErrors, args, token, sent, response,
                   outcome, calls>>

\* result = ApiClient.__build_response(...); return result
Resolve ==
    /\ pc = "resolve"
    /\ outcome' = BuildResponse(response, args.response_models, args.error_responses)
    /\ events' = Append(events, "resolve")
    /\ pc' = "done"
    /\ UNCHANGED <<heap, defaultModels, defaultErrors, args, token, sent, response, calls>>

\* control is back with the caller; the call's local objects are gone
Finish ==
    /\ pc = "done"
    /\ pc' = "idle"
    /\ heap' = Alloc(Alloc(heap, "fresh1"), "fresh2")
    /\ UNCHANGED <<defaultModels, defaultErrors, args, token, events, sent, response,
                   outcome, calls>>

Next ==
    \/ Call
    \/ CallRefreshFails
    \/ PrepareHeaders
    \/ RequestReturns
    \/ RequestFails
    \/ LogEntry
    \/ Resolve
    \/ Finish

Spec == Init /\ [][Next]_vars

-----------------------------------------------------------------------------
(* Header preparation on every caller-supplied mapping *)

InitHeaders ==
    /\ pc = "prepare"
    /\ \E H \in HeaderMappings :
          /\ heap = [InitHeap EXCEPT !["CALLER_HEADERS"] = H]
          /\ args = [IdleArgs EXCEPT !.headers = "CALLER_HEADERS", !.supplied = H]
    /\ defaultModels = <<"None">>
    /\ defaultErrors = NoErrors
    /\ token = 0
    /\ events = <<"refresh">>
    /\ sent = <<>>
    /\ response = NoResponse
    /\ outcome = NoOutcome
    /\ calls = 1

NextHeaders == PrepareHeaders

SpecHeaders == InitHeaders /\ [][NextHeaders]_vars

-----------------------------------------------------------------------------
(* Response resolution on every response, candidate list and error map *)

InitResolve ==
    /\ pc = "resolve"
    /\ response \in Responses
    /\ \E m \in ModelLists, e \in ErrorMaps :
          args = [IdleArgs EXCEPT !.response_models = m, !.error_responses = e]
    /\ heap = InitHeap
    /\ defaultModels = <<"None">>
    /\ defaultErrors = NoErrors
    /\ token = 0
    /\ events = <<"refresh", "prepare", "request", "log">>
    /\ sent = <<>>
    /\ outcome = NoOutcome
    /\ calls = 1

NextResolve == Resolve

SpecResolve == InitResolve /\ [][NextResolve]_vars

-----------------------------------------------------------------------------
(* Properties of response resolution, checked under SpecResolve *)

Resolved == pc = "done" /\ "resolve" \in {events[i] : i \in DOMAIN events}

Success == response.status_code \in OK_STATUS_CODES_RANGE

\* candidate i is non-empty and the body parses against it
Parses(i) ==
    /\ args.response_models[i] # "None"
    /\ response.body.decodable
    /\ Required(args.response_models[i]) \subseteq response.body.fields

Matching == {i \in DOMAIN args.response_models : Parses(i)}

FirstMatch == CHOOSE i \in Matching : \A j \in Matching : i <= j

\* s lists the members of S in increasing order
Ascending(s, S) ==
    /\ {s[i] : i \in DOMAIN s} = S
    /\ \A i, j \in DOMAIN s : i < j => s[i] < s[j]

\* C1: on a status outside the success range resolution raises; no candidate
\* response model is tried and no value is returned
C1_NonSuccessAlwaysRaises ==
    (Resolved /\ ~Success) =>
        /\ outcome.raised
        /\ outcome.tried = <<>>
        /\ outcome.value = NoObject

C1_Witness ==
    /\ Resolved /\ ~Success /\ outcome.raised
    /\ response.status_code \notin DOMAIN args.error_responses
    /\ Matching # {}

\* C2: on a status s outside the success range the raised exception is the
\* registered entry's exception carrying the parse of the body against the entry's
\* shape, or, for an unregistered s, the generic exception carrying the parse against
\* the generic error shape; its status code is s
C2_TypedExceptionForEveryBody ==
    (Resolved /\ ~Success) =>
        LET s == response.status_code
            e == args.error_responses
        IN /\ outcome.raised
           /\ outcome.exception.error_code = s
           /\ s \in DOMAIN e =>
                 /\ outcome.exception.type = e[s].exception
                 /\ outcome.exception.error.model = e[s].model
                 /\ outcome.exception.error.fields =
                        response.body.fields \cap Declared(e[s].model)
           /\ s \notin DOMAIN e =>
                 /\ outcome.exception.type = "ExpediaGroupApiException"
                 /\ outcome.exception.error.model = "Error"
                 /\ outcome.exception.error.fields =
                        response.body.fields \cap Declared("Error")

\* C3: on a success status the result is the parse against the first non-empty
\* candidate that parses; the candidates tried are exactly the non-empty ones up to
\* and including it, in list order
C3_FirstParsingCandidateWins ==
    (Resolved /\ Success) =>
        LET ms == args.response_models
            last == IF Matching = {} THEN Len(ms) ELSE FirstMatch
        IN /\ Matching # {} =>
                 /\ outcome.value.model = ms[FirstMatch]
                 /\ outcome.value.fields =
                        response.body.fields \cap Declared(ms[FirstMatch])
           /\ Ascending(outcome.tried, {i \in 1..last : ms[i] # "None"})

C3_Witness ==
    /\ Resolved /\ Success
    /\ args.response_models = <<"ShapeA", "ShapeB">>
    /\ response.body.fields = {"b", "type"}
    /\ outcome.value = [model |-> "ShapeB", fields |-> {"b"}]
    /\ outcome.tried = <<1, 2>>

\* C4: on a success status resolution raises nothing, and the result is the empty
\* value when no non-empty candidate parses the body
C4_SuccessNeverRaises ==
    (Resolved /\ Success) =>
        /\ ~outcome.raised
        /\ Matching = {} => outcome.value = NoObject

C4_Witness ==
    /\ Resolved /\ Success
    /\ ~response.body.decodable
    /\ \E i \in DOMAIN args.response_models : args.response_models[i] # "None"
    /\ ~outcome.raised
    /\ outcome.value = NoObject

-----------------------------------------------------------------------------
(* Properties of header preparation, checked under SpecHeaders *)

Prepared == "prepare" \in {events[i] : i \in DOMAIN events}

RequestHeaders == heap[args.request_headers]

\* the caller's keys that survive the loop of header preparation
Kept(H) == {k \in DOMAIN H : H[k] \notin {NoneValue, EmptyStr, ZeroValue}}

\* the value sent for a surviving key
Sent(v) ==
    CASE v.kind = "model" -> [kind |-> "str", val |-> v.val]
      [] v.kind \in {"enum", "uuid"} -> [kind |-> "str", val |-> "\"" \o v.val \o "\""]
      [] OTHER -> v

\* the merge of the caller's mapping H with the default set
Merged(H) ==
    [k \in Kept(H) \cup DOMAIN API_REQUEST |->
        IF k \in Kept(H) THEN Sent(H[k]) ELSE API_REQUEST[k]]

\* the keys the caller supplies with a value; a None entry is not sent
Supplied(H) == {k \in DOMAIN H : H[k] # NoneValue}

\* C5: every key the caller supplies is sent with the caller's value (in canonical
\* string form for a model, enum or UUID) and never with the default's; every default
\* key that is not a key of the caller's mapping is sent with the default value; no
\* other key is sent. Entries whose value is None are the ones C6 drops.
C5_CallerKeysNeverReplaced ==
    (pc = "send" /\ Prepared) =>
        LET H == args.supplied
        IN /\ DOMAIN RequestHeaders = Supplied(H) \cup (DOMAIN API_REQUEST \ DOMAIN H)
           /\ \A k \in Supplied(H) \cap DOMAIN RequestHeaders :
                 RequestHeaders[k] = Sent(H[k])
           /\ \A k \in (DOMAIN API_REQUEST \ DOMAIN H) \cap DOMAIN RequestHeaders :
                 RequestHeaders[k] = API_REQUEST[k]

\* C6: a key whose value is None is absent from the headers sent, also when it is a
\* default key, and a key whose value is not None is not dropped
C6_OnlyNoneDropped ==
    (pc = "send" /\ Prepared) =>
        \A k \in DOMAIN args.supplied :
            (args.supplied[k] = NoneValue) <=> (k \notin DOMAIN RequestHeaders)

-----------------------------------------------------------------------------
(* Properties of call(), checked under Spec *)

Count(e) == Cardinality({i \in DOMAIN events : events[i] = e})

Position(e) == CHOOSE i \in DOMAIN events : events[i] = e

\* C7: a call refreshes the token exactly once, before the transport request, and
\* the request carries the credential the collaborator holds after that refresh
C7_RefreshOnceBeforeRequest ==
    /\ calls > 0 => (Count("refresh") = 1 /\ events[1] = "refresh")
    /\ \A i \in DOMAIN events : events[i] = "request" => i > 1
    /\ Count("request") = Len(sent)
    /\ \A i \in DOMAIN sent : sent[i].auth = AuthHeader(token)

C7_Witness ==
    /\ pc = "log"
    /\ token # args.entryToken
    /\ Len(sent) = 1
    /\ sent[1].auth = AuthHeader(token)
    /\ args.body

\* C8: a call issues at most one transport request; a transport failure ends the call
\* with that error, with no resolution and no API exception; a failed refresh ends
\* it with no request at all
C8_AtMostOneRequest ==
    /\ Len(sent) <= 1
    /\ (pc = "done" /\ Len(sent) = 1 /\ response = NoResponse) =>
           /\ outcome.raised
           /\ outcome.exception.type \in TransportErrors
           /\ Count("resolve") = 0
    /\ (pc = "done" /\ Count("prepare") = 0) =>
           /\ outcome.raised
           /\ outcome.exception.type = "AuthError"
           /\ sent = <<>>

C8_Witness ==
    /\ pc = "done"
    /\ Len(sent) = 1
    /\ outcome.raised
    /\ outcome.exception.type = "Timeout"
    /\ events = <<"refresh", "prepare", "request">>

\* C9: once the transport has returned a response, whatever its status, exactly one
\* log entry is emitted, after the request and before resolution ends
C9_OneLogBeforeResolution ==
    /\ Count("log") <= 1
    /\ (response # NoResponse /\ pc \in {"resolve", "done", "idle"}) =>
           /\ Count("log") = 1
           /\ Position("request") < Position("log")
    /\ Count("resolve") > 0 =>
           /\ Count("log") = 1
           /\ Position("log") < Position("resolve")

C9_Witness ==
    /\ pc = "done"
    /\ response.status_code = 404
    /\ outcome.raised
    /\ outcome.exception.type = "NotFoundException"
    /\ events = <<"refresh", "prepare", "request", "log", "resolve">>

\* C10: calls leave the caller's mapping, the shared default arguments and the
\* default header set as they were, prepare headers in a mapping created by that
\* call, and send headers determined by that call's own mapping
C10_SharedMappingsUntouched ==
    /\ heap["DEFAULT_HEADERS"] = EmptyDict
    /\ heap["API_REQUEST"] = API_REQUEST
    /\ args.headers = "CALLER_HEADERS" => heap["CALLER_HEADERS"] = args.supplied
    /\ defaultModels = <<"None">>
    /\ defaultErrors = NoErrors
    /\ args.request_headers \in {"fresh1", "fresh2"}
    /\ \A i \in DOMAIN sent : sent[i].headers = Merged(args.supplied)

C10_Witness ==
    /\ calls = 2
    /\ pc = "log"
    /\ args.headers = "DEFAULT_HEADERS"
    /\ heap["CALLER_HEADERS"] = ("Accept" :> TextValue) @@ ("x-id" :> EnumValue)
    /\ sent = <<[headers |-> API_REQUEST, auth |-> AuthHeader(token), data |-> args.body]>>

====
